---------------------------- MODULE Spec2Model ----------------------------
(***************************************************************************)
(* Model of ipcheck (src/bin/ipcheck.rs): CIDR prefix sets, the binary     *)
(* trie built from them, and the flat array of child indices produced by   *)
(* trie_to_nodes and read back by nodes_to_trie.                           *)
(*                                                                         *)
(* A prefix is the sequence of its leading address bits; a trie node is    *)
(* named by the bit path that reaches it, so a trie (Box<IpTrieNode>) is   *)
(* the prefix-closed set of the paths of its nodes, and an absent trie     *)
(* (Option::None) is the empty set of nodes.                               *)
(***************************************************************************)
EXTENDS Integers, Sequences, FiniteSets, Bags, TLC

\* Address width of the modelled IPv4 family (32 in the program).
Width4 == 2
\* Address width of the modelled IPv6 family (128 in the program).
Width6 == 3
\* Number of add calls on one prefix set.
MaxAdds == 3
\* Depth of the tries handed directly to trie_to_nodes.
MaxDepth == 2
\* Length of the prefixes the records of a run of main hold.
MaxRecLen == 1
\* Number of records main reads from one input.
MaxRecords == 2

Bits == {0, 1}

Families == {"v4", "v6"}

Width(f) == IF f = "v4" THEN Width4 ELSE Width6

Max(a, b) == IF a >= b THEN a ELSE b

RECURSIVE Paths(_)
\* Every bit path of length at most n.
Paths(n) ==
  IF n = 0 THEN {<<>>}
  ELSE LET shorter == Paths(n - 1)
       IN  shorter \cup {Append(p, b) : p \in {q \in shorter : Len(q) = n - 1}, b \in Bits}

Prefixes4 == Paths(Width4)

Prefixes6 == Paths(Width6)

\* The prefixes of one family: base address bits and prefix length in [0, width].
Prefixes(f) == IF f = "v4" THEN Prefixes4 ELSE Prefixes6

Addresses4 == {a \in Prefixes4 : Len(a) = Width4}

Addresses6 == {a \in Prefixes6 : Len(a) = Width6}

\* The addresses of one family: bit strings of full width.
Addresses(f) == IF f = "v4" THEN Addresses4 ELSE Addresses6

\* p is a prefix of q as bit strings: the range of q lies inside the range of p.
Contains(p, q) == Len(p) <= Len(q) /\ SubSeq(q, 1, Len(p)) = p

Parent(p) == SubSeq(p, 1, Len(p) - 1)

\* Equal length, same parent, complementary final bit.
Siblings(p, q) ==
  /\ Len(p) = Len(q)
  /\ Len(p) > 0
  /\ Parent(p) = Parent(q)
  /\ p[Len(p)] # q[Len(q)]

\* The addresses of family f inside some prefix of the collection S.
Covered(f, S) == {a \in Addresses(f) : \E p \in S : Contains(p, a)}

----------------------------------------------------------------------------
(* Tries *)

NoTrie == {}

HasChild(t, p, b) == Append(p, b) \in t

\* A node with zero children is terminal.
IsLeaf(t, p) == ~HasChild(t, p, 0) /\ ~HasChild(t, p, 1)

\* Depth of a trie in edges: the length of its longest bit path.
Depth(t) == CHOOSE d \in 0..Cardinality(t) :
              /\ \E p \in t : Len(p) = d
              /\ \A p \in t : Len(p) <= d

\* IpTrieNode { children: [left, right] } over two optional subtrees.
MkNode(left, right) ==
  {<<>>} \cup {<<0>> \o p : p \in left} \cup {<<1>> \o p : p \in right}

RECURSIVE Tries(_)
\* Every trie of depth at most d.
Tries(d) ==
  IF d = 0 THEN {{<<>>}}
  ELSE LET sub == Tries(d - 1) \cup {NoTrie}
       IN  {MkNode(l, r) : l \in sub, r \in sub}

\* No node has two terminal children: the shape a simplified set builds.
NoSiblingLeaves(t) ==
  \A p \in t : ~(/\ HasChild(t, p, 0) /\ IsLeaf(t, Append(p, 0))
                 /\ HasChild(t, p, 1) /\ IsLeaf(t, Append(p, 1)))

----------------------------------------------------------------------------
(* trie_to_nodes *)

\* nodes[k] of the Vec<usize>, which is indexed from 0.
At(nds, k) == nds[k + 1]

SetAt(nds, k, v) == [nds EXCEPT ![k + 1] = v]

LeftOf(nds, idx) == At(nds, idx * 2)

RightOf(nds, idx) == At(nds, idx * 2 + 1)

NodeCount(nds) == Len(nds) \div 2

\* Mutant of FlatInit: the root's pair is pushed twice.
FlatInitTwice(t) ==
  [nodes |-> <<0, 0, 0, 0>>, stack |-> << [node |-> << >>, idx |-> 0] >>]

\* let mut stack = vec![(trie.as_ref(), nodes.len())]; nodes.extend([0, 0]);
FlatInit(t) ==
  [nodes |-> <<0, 0>>, stack |-> << [node |-> << >>, idx |-> 0] >>]

\* The slot a newly found child gets: nodes.len() / 2.
NextSlot(nds) == Len(nds) \div 2

\* Mutant of PushChild: the parent's own index is stored in the child slot.
PushChildStoresParent(t, st, top, b) ==
  IF HasChild(t, top.node, b)
  THEN LET child_idx == NextSlot(st.nodes)
           extended  == st.nodes \o <<0, 0>>
       IN  [nodes |-> SetAt(extended, top.idx * 2 + b, top.idx),
            stack |-> Append(st.stack, [node |-> Append(top.node, b), idx |-> child_idx])]
  ELSE st

\* Mutant of PushChild: the child's index is stored in the other child's slot.
PushChildSwapped(t, st, top, b) ==
  IF HasChild(t, top.node, b)
  THEN LET child_idx == NextSlot(st.nodes)
           extended  == st.nodes \o <<0, 0>>
       IN  [nodes |-> SetAt(extended, top.idx * 2 + (1 - b), child_idx),
            stack |-> Append(st.stack, [node |-> Append(top.node, b), idx |-> child_idx])]
  ELSE st

\* Mutant of PushChild: the child is inserted at the bottom of the stack.
PushChildFront(t, st, top, b) ==
  IF HasChild(t, top.node, b)
  THEN LET child_idx == NextSlot(st.nodes)
           extended  == st.nodes \o <<0, 0>>
       IN  [nodes |-> SetAt(extended, top.idx * 2 + b, child_idx),
            stack |-> << [node |-> Append(top.node, b), idx |-> child_idx] >> \o st.stack]
  ELSE st

\* One `if let Some(child) = &node.children[b]` block of the loop body.
PushChild(t, st, top, b) ==
  IF HasChild(t, top.node, b)
  THEN LET child_idx == NextSlot(st.nodes)
           extended  == st.nodes \o <<0, 0>>
       IN  [nodes |-> SetAt(extended, top.idx * 2 + b, child_idx),
            stack |-> Append(st.stack, [node |-> Append(top.node, b), idx |-> child_idx])]
  ELSE st

\* Mutant of FlatStep: the left child is handled before the right child.
FlatStepLeftFirst(t, st) ==
  LET top  == st.stack[Len(st.stack)]
      rest == [nodes |-> st.nodes, stack |-> SubSeq(st.stack, 1, Len(st.stack) - 1)]
  IN  PushChild(t, PushChild(t, rest, top, 0), top, 1)

\* One iteration of `while let Some((node, idx)) = stack.pop()`:
\* the right child is handled first, then the left child.
FlatStep(t, st) ==
  LET top  == st.stack[Len(st.stack)]
      rest == [nodes |-> st.nodes, stack |-> SubSeq(st.stack, 1, Len(st.stack) - 1)]
  IN  PushChild(t, PushChild(t, rest, top, 1), top, 0)

RECURSIVE FlatRun(_, _)
FlatRun(t, st) ==
  IF st.stack = <<>> THEN st.nodes ELSE FlatRun(t, FlatStep(t, st))

trie_to_nodes(t) == FlatRun(t, FlatInit(t))

----------------------------------------------------------------------------
(* nodes_to_trie *)

\* Mutant of UnflatInit: the loop starts one entry short of the end.
UnflatInitSkipLast(nds) ==
  [cache |-> [k \in {} |-> NoTrie], i |-> NodeCount(nds) - 1, panicked |-> FALSE]

\* let mut cache = BTreeMap::new(); for i in (0..node_count).rev()
UnflatInit(nds) ==
  [cache |-> [k \in {} |-> NoTrie], i |-> NodeCount(nds), panicked |-> FALSE]

\* cache.remove(&idx) leaves the map without key idx.
Remove(c, keys) == [k \in DOMAIN c \ keys |-> c[k]]

Insert(c, key, val) == [k \in DOMAIN c \cup {key} |-> IF k = key THEN val ELSE c[k]]

\* One iteration of the loop for index i - 1; cache.remove(..).unwrap() panics
\* on a key that is absent, also when the left child has just taken it.
UnflatStep(nds, st) ==
  LET idx       == st.i - 1
      left_idx  == LeftOf(nds, idx)
      right_idx == RightOf(nds, idx)
      left_ok   == left_idx = 0 \/ left_idx \in DOMAIN st.cache
      right_ok  == right_idx = 0 \/ (right_idx \in DOMAIN st.cache /\ right_idx # left_idx)
  IN  IF left_ok /\ right_ok
      THEN LET left  == IF left_idx = 0 THEN NoTrie ELSE st.cache[left_idx]
               right == IF right_idx = 0 THEN NoTrie ELSE st.cache[right_idx]
               taken == {left_idx, right_idx} \ {0}
           IN  [cache |-> Insert(Remove(st.cache, taken), idx, MkNode(left, right)),
                i |-> idx, panicked |-> FALSE]
      ELSE [cache |-> st.cache, i |-> idx, panicked |-> TRUE]

RECURSIVE UnflatRun(_, _)
\* The whole function: the rebuilt root, or NoTrie when an unwrap panicked.
UnflatRun(nds, st) ==
  IF st.panicked THEN NoTrie
  ELSE IF st.i = 0
       THEN IF 0 \in DOMAIN st.cache THEN st.cache[0] ELSE NoTrie
       ELSE UnflatRun(nds, UnflatStep(nds, st))

nodes_to_trie(nds) == UnflatRun(nds, UnflatInit(nds))

----------------------------------------------------------------------------
(* IpRange: the prefix set *)

\* range.add(net): one more member; nothing is merged, duplicates are kept.
add(rng, p) == rng (+) SetToBag({p})

\* Mutant of Redundant: a duplicate is not seen as redundant.
RedundantKeepsDuplicates(rng, p) ==
  /\ BagIn(p, rng)
  /\ \E q \in BagToSet(rng) : q # p /\ Contains(q, p)

\* A member that is a duplicate, or lies inside a different, broader member.
Redundant(rng, p) ==
  /\ BagIn(p, rng)
  /\ \/ CopiesIn(p, rng) > 1
     \/ \E q \in BagToSet(rng) : q # p /\ Contains(q, p)

DropMember(rng, p) == rng (-) SetToBag({p})

\* Mutant of Mergeable: the two halves of the address space are never merged.
MergeableBelowTop(rng, p, q) ==
  BagIn(p, rng) /\ BagIn(q, rng) /\ Siblings(p, q) /\ Len(p) > 1

\* Two members that are siblings and can become their parent.
Mergeable(rng, p, q) == BagIn(p, rng) /\ BagIn(q, rng) /\ Siblings(p, q)

MergeSiblings(rng, p, q) == ((rng (-) SetToBag({p})) (-) SetToBag({q})) (+) SetToBag({Parent(p)})

\* No rule of simplify applies any more.
IsSimplified(rng) ==
  /\ \A p \in BagToSet(rng) : ~Redundant(rng, p)
  /\ \A p, q \in BagToSet(rng) : ~Mergeable(rng, p, q)

\* range.into_trie(): every member's path from the root, with nothing kept
\* below a member's own node; no member, no root.
into_trie(S) ==
  {q \in UNION {{SubSeq(p, 1, n) : n \in 0..Len(p)} : p \in S} :
     ~\E p \in S : Contains(p, q) /\ p # q}

\* IpRange::from(trie): the prefix of every terminal node.
from_trie(t) == {p \in t : IsLeaf(t, p)}

\* The generated consumer's descent over the flat array for address a, standing
\* at entry idx with the first k bits consumed.
RECURSIVE Descend(_, _, _, _)
Descend(nds, idx, a, k) ==
  LET terminal == LeftOf(nds, idx) = 0 /\ RightOf(nds, idx) = 0
  IN  IF k = Len(a) THEN terminal
      ELSE LET child == At(nds, idx * 2 + a[k + 1])
           IN  IF child = 0 THEN terminal ELSE Descend(nds, child, a, k + 1)

IsMember(nds, a) == Descend(nds, 0, a, 0)

----------------------------------------------------------------------------
(* State *)

VARIABLES
  pc,        \* position of the run
  family,    \* address family being processed
  range,     \* the IpRange being built or simplified (a bag of prefixes)
  added,     \* every prefix handed to add on this range so far (a bag)
  original,  \* the simplified range the trie is built from
  trie,      \* the boxed root handed to trie_to_nodes
  nodes,     \* trie_to_nodes: the Vec<usize> being filled
  stack,     \* trie_to_nodes: the work stack of (node, idx)
  popped,    \* trie_to_nodes: the (node, idx) pairs popped so far, in order
  cache,     \* nodes_to_trie: index -> materialized, unattached node
  i,         \* nodes_to_trie: entries still to process
  rebuilt,   \* the root nodes_to_trie returned
  nodes_v4,  \* main: the flattened IPv4 array
  file,      \* main: the output file
  fault,     \* the failure the environment or the input caused, if any
  log        \* the stages completed, in order

vars == <<pc, family, range, added, original, trie, nodes, stack, popped,
          cache, i, rebuilt, nodes_v4, file, fault, log>>

flatVars == <<nodes, stack, popped>>
unflatVars == <<cache, i, rebuilt>>
mainVars == <<nodes_v4, file>>

EmptyCache == [k \in {} |-> NoTrie]

BlankRange == range = EmptyBag /\ added = EmptyBag /\ original = {}

BlankUnflat == cache = EmptyCache /\ i = 0 /\ rebuilt = NoTrie

BlankMain == nodes_v4 = <<>> /\ file = "absent" /\ fault = "none" /\ log = <<>>

----------------------------------------------------------------------------
(* trie_to_nodes and nodes_to_trie, one loop iteration at a time *)

\* trie_to_nodes has been called on some trie and has set up nodes and stack.
InitFlat ==
  /\ pc = "flatten"
  /\ family = "v4"
  /\ trie \in Tries(MaxDepth)
  /\ nodes = FlatInit(trie).nodes
  /\ stack = FlatInit(trie).stack
  /\ popped = <<>>
  /\ BlankRange /\ BlankUnflat /\ BlankMain

\* while let Some((node, idx)) = stack.pop() { .. }
FlatLoop ==
  /\ pc = "flatten"
  /\ stack # <<>>
  /\ LET st == FlatStep(trie, [nodes |-> nodes, stack |-> stack])
     IN  /\ nodes' = st.nodes
         /\ stack' = st.stack
  /\ popped' = Append(popped, stack[Len(stack)])
  /\ UNCHANGED <<pc, family, range, added, original, trie, unflatVars, mainVars, fault, log>>

\* The stack is empty: trie_to_nodes returns nodes, and nodes_to_trie is
\* called on them and sets up its cache and its loop.
FlatReturn ==
  /\ pc = "flatten"
  /\ stack = <<>>
  /\ pc' = "unflatten"
  /\ cache' = UnflatInit(nodes).cache
  /\ i' = UnflatInit(nodes).i
  /\ UNCHANGED <<family, range, added, original, trie, flatVars, rebuilt, mainVars, fault, log>>

\* for i in (0..node_count).rev() { .. }
UnflatLoop ==
  /\ pc = "unflatten"
  /\ i > 0
  /\ LET st == UnflatStep(nodes, [cache |-> cache, i |-> i, panicked |-> FALSE])
     IN  IF st.panicked
         THEN pc' = "panic" /\ UNCHANGED <<cache, i>>
         ELSE pc' = pc /\ cache' = st.cache /\ i' = st.i
  /\ UNCHANGED <<family, range, added, original, trie, flatVars, rebuilt, mainVars, fault, log>>

\* cache.remove(&0).unwrap()
UnflatReturn ==
  /\ pc = "unflatten"
  /\ i = 0
  /\ IF 0 \in DOMAIN cache
     THEN pc' = "rebuilt" /\ rebuilt' = cache[0] /\ cache' = Remove(cache, {0})
     ELSE pc' = "panic" /\ UNCHANGED <<rebuilt, cache>>
  /\ UNCHANGED <<family, range, added, original, trie, flatVars, i, mainVars, fault, log>>

NextFlat == FlatLoop \/ FlatReturn \/ UnflatLoop \/ UnflatReturn

SpecFlat == InitFlat /\ [][NextFlat]_vars

----------------------------------------------------------------------------
(* A prefix set through add, simplify, into_trie, trie_to_nodes, nodes_to_trie
   and back to a prefix set *)

\* IpRange::new() for one of the two families.
InitRange ==
  /\ pc = "adding"
  /\ family \in Families
  /\ trie = NoTrie
  /\ nodes = <<>> /\ stack = <<>> /\ popped = <<>>
  /\ BlankRange /\ BlankUnflat /\ BlankMain

\* range.add(net)
Add(p) ==
  /\ pc = "adding"
  /\ BagCardinality(range) < MaxAdds
  /\ range' = add(range, p)
  /\ added' = add(added, p)
  /\ UNCHANGED <<pc, family, original, trie, flatVars, unflatVars, mainVars, fault, log>>

\* range.simplify() is entered: the input has been read to its end.
SimplifyCall ==
  /\ pc = "adding"
  /\ pc' = "simplifying"
  /\ log' = Append(log, <<family, "loaded">>)
  /\ UNCHANGED <<family, range, added, original, trie, flatVars, unflatVars, mainVars, fault>>

\* simplify: a member inside a different, broader member (or a duplicate) goes.
SimplifyDrop(p) ==
  /\ pc \in {"simplifying", "resimplifying"}
  /\ Redundant(range, p)
  /\ range' = DropMember(range, p)
  /\ UNCHANGED <<pc, family, added, original, trie, flatVars, unflatVars, mainVars, fault, log>>

\* simplify: two sibling members become their parent.
SimplifyMerge(p, q) ==
  /\ pc \in {"simplifying", "resimplifying"}
  /\ Mergeable(range, p, q)
  /\ range' = MergeSiblings(range, p, q)
  /\ UNCHANGED <<pc, family, added, original, trie, flatVars, unflatVars, mainVars, fault, log>>

\* simplify returns when no rule applies: load_csv hands the range back, or
\* the round trip has its reconstructed range to compare.
SimplifyReturn ==
  /\ pc \in {"simplifying", "resimplifying"}
  /\ IsSimplified(range)
  /\ IF pc = "simplifying"
     THEN /\ pc' = "simplified"
          /\ original' = BagToSet(range)
          /\ log' = Append(log, <<family, "simplified">>)
     ELSE /\ pc' = "compared"
          /\ UNCHANGED <<original, log>>
  /\ UNCHANGED <<family, range, added, trie, flatVars, unflatVars, mainVars, fault>>

\* range.into_trie().into_boxed_node().unwrap()
IntoTrie ==
  /\ pc = "simplified"
  /\ trie' = into_trie(BagToSet(range))
  /\ IF trie' = NoTrie
     THEN pc' = "panic" /\ fault' = "unwrap" /\ UNCHANGED log
     ELSE pc' = "have_trie" /\ UNCHANGED fault /\ log' = Append(log, <<family, "trie">>)
  /\ UNCHANGED <<family, range, added, original, flatVars, unflatVars, mainVars>>

\* let nodes = trie_to_nodes(trie);
Flatten ==
  /\ pc = "have_trie"
  /\ nodes' = trie_to_nodes(trie)
  /\ pc' = "flat"
  /\ log' = Append(log, <<family, "flattened">>)
  /\ UNCHANGED <<family, range, added, original, trie, stack, popped, unflatVars, mainVars, fault>>

\* let reconstructed_trie = nodes_to_trie(nodes);
Unflatten ==
  /\ pc = "flat"
  /\ rebuilt' = nodes_to_trie(nodes)
  /\ pc' = IF rebuilt' = NoTrie THEN "panic" ELSE "unflat"
  /\ UNCHANGED <<family, range, added, original, trie, flatVars, cache, i, mainVars, fault, log>>

\* trie_to_range: IpRange::from(trie), then simplify.
FromTrie ==
  /\ pc = "unflat"
  /\ range' = SetToBag(from_trie(rebuilt))
  /\ pc' = "resimplifying"
  /\ UNCHANGED <<family, added, original, trie, flatVars, unflatVars, mainVars, fault, log>>

NextRange ==
  \/ \E p \in Prefixes(family) : Add(p)
  \/ SimplifyCall
  \/ \E p \in BagToSet(range) : SimplifyDrop(p)
  \/ \E p, q \in BagToSet(range) : SimplifyMerge(p, q)
  \/ SimplifyReturn
  \/ IntoTrie
  \/ Flatten
  \/ Unflatten
  \/ FromTrie

SpecRange == InitRange /\ [][NextRange]_vars

----------------------------------------------------------------------------
(* main *)

\* The prefixes the records of a run hold.
RecordPrefixes == Paths(MaxRecLen)

InitMain ==
  /\ pc = "start"
  /\ family = "v4"
  /\ trie = NoTrie
  /\ nodes = <<>> /\ stack = <<>> /\ popped = <<>>
  /\ BlankRange /\ BlankUnflat /\ BlankMain

\* if args.len() != 4 { eprintln!(..); std::process::exit(1); }
CheckArgs(argc) ==
  /\ pc = "start"
  /\ IF argc # 4
     THEN pc' = "exit" /\ fault' = "usage"
     ELSE pc' = "open" /\ UNCHANGED fault
  /\ UNCHANGED <<family, range, added, original, trie, flatVars, unflatVars, mainVars, log>>

\* load_csv: csv::Reader::from_path(path)?
OpenCsv(ok) ==
  /\ pc = "open"
  /\ IF ok
     THEN pc' = "adding" /\ UNCHANGED fault
     ELSE pc' = "err" /\ fault' = "open"
  /\ range' = EmptyBag
  /\ added' = EmptyBag
  /\ UNCHANGED <<family, original, trie, flatVars, unflatVars, mainVars, log>>

\* Mutant of ReadRecord: a record that does not parse is skipped.
ReadRecordSkipsBad(ok, p) ==
  /\ pc = "adding"
  /\ BagCardinality(added) < MaxRecords
  /\ IF ok
     THEN /\ range' = add(range, p)
          /\ added' = add(added, p)
          /\ UNCHANGED <<pc, fault>>
     ELSE /\ fault' = "parse"
          /\ UNCHANGED <<pc, range, added>>
  /\ UNCHANGED <<family, original, trie, flatVars, unflatVars, mainVars, log>>

\* load_csv: one record of the fold: range.add(ip.parse().unwrap()), which
\* panics on a record that is no prefix of the family.
ReadRecord(ok, p) ==
  /\ pc = "adding"
  /\ BagCardinality(added) < MaxRecords
  /\ IF ok
     THEN /\ range' = add(range, p)
          /\ added' = add(added, p)
          /\ UNCHANGED <<pc, fault>>
     ELSE /\ pc' = "panic"
          /\ fault' = "parse"
          /\ UNCHANGED <<range, added>>
  /\ UNCHANGED <<family, original, trie, flatVars, unflatVars, mainVars, log>>

\* let nodes = trie_to_nodes(trie); is done: on to the IPv6 input, or to the template.
NextFamily ==
  /\ pc = "flat"
  /\ IF family = "v4"
     THEN /\ nodes_v4' = nodes
          /\ nodes' = <<>>
          /\ family' = "v6"
          /\ pc' = "open"
     ELSE /\ pc' = "render"
          /\ UNCHANGED <<nodes_v4, nodes, family>>
  /\ UNCHANGED <<range, added, original, trie, stack, popped, unflatVars, file, fault, log>>

\* tt.render_template(..)?
Render(ok) ==
  /\ pc = "render"
  /\ IF ok
     THEN pc' = "create" /\ UNCHANGED fault
     ELSE pc' = "err" /\ fault' = "render"
  /\ UNCHANGED <<family, range, added, original, trie, flatVars, unflatVars, mainVars, log>>

\* let mut file = File::create(output_path)?;
CreateFile(ok) ==
  /\ pc = "create"
  /\ IF ok
     THEN pc' = "write" /\ file' = "created" /\ UNCHANGED fault
     ELSE pc' = "err" /\ fault' = "create" /\ UNCHANGED file
  /\ UNCHANGED <<family, range, added, original, trie, flatVars, unflatVars, nodes_v4, log>>

\* file.write_all(code.as_bytes())?; Ok(())
WriteFile(ok) ==
  /\ pc = "write"
  /\ IF ok
     THEN pc' = "done" /\ file' = "written" /\ UNCHANGED fault
     ELSE pc' = "err" /\ fault' = "write" /\ UNCHANGED file
  /\ UNCHANGED <<family, range, added, original, trie, flatVars, unflatVars, nodes_v4, log>>

NextMain ==
  \/ \E argc \in 3..5 : CheckArgs(argc)
  \/ \E ok \in BOOLEAN : OpenCsv(ok)
  \/ \E ok \in BOOLEAN, p \in RecordPrefixes : ReadRecord(ok, p)
  \/ SimplifyCall
  \/ \E p \in BagToSet(range) : SimplifyDrop(p)
  \/ \E p, q \in BagToSet(range) : SimplifyMerge(p, q)
  \/ SimplifyReturn
  \/ IntoTrie
  \/ Flatten
  \/ NextFamily
  \/ \E ok \in BOOLEAN : Render(ok)
  \/ \E ok \in BOOLEAN : CreateFile(ok)
  \/ \E ok \in BOOLEAN : WriteFile(ok)

SpecMain == InitMain /\ [][NextMain]_vars

----------------------------------------------------------------------------
(* Properties of trie_to_nodes and nodes_to_trie *)

Flattened == pc \in {"unflatten", "rebuilt"}

Indices(nds) == 0..(NodeCount(nds) - 1)

ChildCount(t, p) ==
  (IF HasChild(t, p, 0) THEN 1 ELSE 0) + (IF HasChild(t, p, 1) THEN 1 ELSE 0)

RECURSIVE SlotsBefore(_)
\* The number of slots in use when the k-th pop happens.
SlotsBefore(k) ==
  IF k = 1 THEN 1 ELSE SlotsBefore(k - 1) + ChildCount(trie, popped[k - 1].node)

\* C3: in the array trie_to_nodes builds, every non-zero child index stored in
\* the entry at position idx is strictly greater than idx, so 0 never names a child.
C3_ChildIndexGreater ==
  /\ \A idx \in Indices(nodes) :
       /\ LeftOf(nodes, idx) # 0 => LeftOf(nodes, idx) > idx
       /\ RightOf(nodes, idx) # 0 => RightOf(nodes, idx) > idx
  /\ \A k \in 1..Len(popped) : popped[k].idx = 0 => popped[k].node = <<>>
  /\ \A k \in 1..Len(stack) : stack[k].idx = 0 => stack[k].node = <<>>

C3_Witness ==
  /\ Flattened
  /\ \E idx \in Indices(nodes) :
       idx > 0 /\ LeftOf(nodes, idx) > idx /\ RightOf(nodes, idx) > idx

\* C4: the array trie_to_nodes returns has one (left, right) entry per trie
\* node: its length in entries is the node count of the trie, every node owns
\* one position, and the entry there records which children the node has.
C4_OneEntryPerNode ==
  Flattened =>
    /\ Len(nodes) = 2 * Cardinality(trie)
    /\ Len(popped) = Cardinality(trie)
    /\ {popped[k].node : k \in 1..Len(popped)} = trie
    /\ {popped[k].idx : k \in 1..Len(popped)} = Indices(nodes)
    /\ \A k \in 1..Len(popped) :
         /\ LeftOf(nodes, popped[k].idx) # 0 <=> HasChild(trie, popped[k].node, 0)
         /\ RightOf(nodes, popped[k].idx) # 0 <=> HasChild(trie, popped[k].node, 1)

C4_Witness == Flattened /\ Cardinality(trie) >= 5

\* C8 as stated: at every step of trie_to_nodes the work stack holds at most
\* depth-of-the-trie entries (depth in edges, as the bounds 32 and 128 say);
\* stated here for the tries of depth 1 and more, leaving the lone root aside.
C8_StackWithinDepth ==
  (pc = "flatten" /\ Depth(trie) >= 1) => Len(stack) <= Depth(trie)

\* C8 as amended: the work stack holds at most depth + 1 entries, and at most
\* max(1, depth) entries for a trie without sibling leaves (the tries built
\* from simplified sets); no node is popped twice, and the loop ends with an
\* empty stack once every node has been popped.
C8_StackWithinDepthPlusOne ==
  /\ Len(stack) <= Depth(trie) + 1
  /\ NoSiblingLeaves(trie) => Len(stack) <= Max(1, Depth(trie))
  /\ \A j, k \in 1..Len(popped) : popped[j].node = popped[k].node => j = k
  /\ Len(popped) + Len(stack) <= Cardinality(trie)
  /\ (pc = "flatten" /\ stack = <<>>) => Len(popped) = Cardinality(trie)
  /\ Flattened => stack = <<>>

C8_Witness ==
  /\ pc = "flatten"
  /\ popped # <<>>
  /\ Depth(trie) >= 2
  /\ Len(stack) = Depth(trie) + 1

\* C9: nodes_to_trie on an array of trie_to_nodes never fails a lookup: each
\* non-zero child index it is about to read is a key of the cache, distinct
\* from the other one, and after the loop the cache holds key 0 alone.
C9_LookupsSucceed ==
  /\ pc # "panic"
  /\ (pc = "unflatten" /\ i > 0) =>
       LET l == LeftOf(nodes, i - 1)
           r == RightOf(nodes, i - 1)
       IN  /\ l # 0 => l \in DOMAIN cache
           /\ r # 0 => r \in DOMAIN cache
           /\ l # 0 => l # r
  /\ (pc = "unflatten" /\ i = 0) => DOMAIN cache = {0}
  /\ pc = "rebuilt" => rebuilt = trie /\ DOMAIN cache = {}

C9_Witness ==
  /\ pc = "unflatten"
  /\ i > 0
  /\ LeftOf(nodes, i - 1) # 0
  /\ RightOf(nodes, i - 1) # 0
  /\ Cardinality(DOMAIN cache) >= 3

\* C10: slots are handed out consecutively from 1 in the order children are
\* found: the node popped k-th gives its right child the next free slot and
\* its left child the one after (left = right + 1 when both exist), and a
\* missing child leaves 0.
C10_SlotOrder ==
  \A k \in 1..Len(popped) :
    LET n    == popped[k].node
        base == SlotsBefore(k)
        hasL == HasChild(trie, n, 0)
        hasR == HasChild(trie, n, 1)
    IN  /\ RightOf(nodes, popped[k].idx) = IF hasR THEN base ELSE 0
        /\ LeftOf(nodes, popped[k].idx) =
             IF hasL THEN (IF hasR THEN base + 1 ELSE base) ELSE 0
        /\ (hasL /\ hasR) =>
             LeftOf(nodes, popped[k].idx) = RightOf(nodes, popped[k].idx) + 1

C10_Witness ==
  /\ Flattened
  /\ \E k \in 2..Len(popped) :
       /\ RightOf(nodes, popped[k].idx) > 2
       /\ LeftOf(nodes, popped[k].idx) = RightOf(nodes, popped[k].idx) + 1
  /\ \E k \in 1..Len(popped) :
       LeftOf(nodes, popped[k].idx) = 0 /\ RightOf(nodes, popped[k].idx) # 0

----------------------------------------------------------------------------
(* Properties of the prefix set and of the round trip *)

\* Every address inside p is covered by the collection S.
FullyCovered(f, S, p) ==
  \A a \in Addresses(f) : Contains(p, a) => \E q \in S : Contains(q, a)

\* The broadest prefixes that S covers entirely: it depends on the set of
\* members of S alone, not on how often or in which order they were added.
Canonical(f, S) ==
  {p \in Prefixes(f) :
     /\ FullyCovered(f, S, p)
     /\ Len(p) > 0 => ~FullyCovered(f, S, Parent(p))}

Inserted == BagToSet(added)

\* C1 as stated: for every simplified prefix set S, also the empty one, the
\* round trip trie -> trie_to_nodes -> nodes_to_trie -> prefix set -> simplify
\* runs to its end and yields S again.
C1_RoundTrip ==
  pc \in {"panic", "compared"} => (pc = "compared" /\ BagToSet(range) = original)

\* The round trip of every simplified prefix set that has a member.
RoundTripNonEmpty ==
  /\ (pc = "simplified" /\ original # {}) => into_trie(original) # NoTrie
  /\ pc = "unflat" => rebuilt = trie
  /\ pc = "compared" => range = SetToBag(original)
  /\ pc = "panic" => original = {}

\* C2: for the flat array built from a simplified set S, the consumer's
\* descent answers "member" for an address exactly when the address lies
\* inside some prefix of S, prefixes of full length included.
C2_DescentFaithful ==
  pc = "flat" =>
    \A a \in Addresses(family) :
      IsMember(nodes, a) <=> \E p \in original : Contains(p, a)

C2_Witness ==
  /\ pc = "flat"
  /\ Cardinality(original) >= 2
  /\ \E p \in original : Len(p) = Width(family) /\ IsMember(nodes, p)
  /\ \E a \in Addresses(family) : ~IsMember(nodes, a)

\* C6: the simplified collection is the canonical form of the set of inserted
\* prefixes, so it is the same however often a prefix was inserted and in
\* whichever order the members were inserted and processed.
C6_CanonicalOfInsertedSet ==
  pc = "simplified" => range = SetToBag(Canonical(family, Inserted))

C6_Witness ==
  /\ pc = "simplified"
  /\ BagCardinality(added) > Cardinality(Inserted)
  /\ Cardinality(Inserted) >= 2
  /\ Cardinality(original) = 1

\* C7: after simplify no two members overlap, none lies inside another, no
\* two siblings both remain (pairs are merged into the parent up to a fixed
\* point), and the addresses covered are those of the inserted prefixes.
C7_SimplifiedForm ==
  pc = "simplified" =>
    /\ range = SetToBag(original)
    /\ \A p, q \in original : p # q => ~Contains(p, q)
    /\ \A p, q \in original :
         p # q => Covered(family, {p}) \cap Covered(family, {q}) = {}
    /\ \A p, q \in original : ~Siblings(p, q)
    /\ Covered(family, original) = Covered(family, Inserted)
    /\ Inserted = {<<0, 0>>, <<0, 1>>} => original = {<<0>>}
    /\ \A p \in Inserted : Inserted = {<<0>>, p} /\ Contains(<<0>>, p) => original = {<<0>>}

C7_Witness ==
  /\ pc = "simplified"
  /\ Inserted = {<<0, 0>>, <<0, 1>>, <<1>>}
  /\ original = {<<>>}

----------------------------------------------------------------------------
(* Properties of main *)

\* Both inputs loaded, simplified, converted to a trie and flattened, IPv4 first.
AllStages ==
  <<<<"v4", "loaded">>, <<"v4", "simplified">>, <<"v4", "trie">>, <<"v4", "flattened">>,
    <<"v6", "loaded">>, <<"v6", "simplified">>, <<"v6", "trie">>, <<"v6", "flattened">>>>

\* C5: the output file exists only once both inputs have been loaded,
\* simplified, converted and flattened, and a run in which a record failed to
\* parse, or a step before the file's creation failed, ends without the file.
C5_AllOrNothing ==
  /\ file # "absent" =>
       /\ log = AllStages
       /\ nodes_v4 # <<>> /\ nodes # <<>>
       /\ pc \in {"write", "done", "err"}
       /\ fault \in {"none", "write"}
  /\ fault \notin {"none", "write"} => file = "absent"
  /\ pc \in {"panic", "exit"} => file = "absent"
  /\ file = "written" <=> pc = "done"

C5_Witness ==
  /\ pc = "done"
  /\ file = "written"
  /\ Len(nodes_v4) > 2
  /\ Len(nodes) > 2

============================================================================
